---- MODULE Spec2Model ----
(***************************************************************************)
(* Model of the static-route operator's process entry point                *)
(* (cmd/manager/main.go): main, mainImpl, parseTargetTable and             *)
(* collectProtectedSubnets, together with the goroutine that mainImpl      *)
(* launches for the route manager.  The route manager (pkg/routemanager)   *)
(* and the static-route controller (pkg/controller/staticroute) are        *)
(* modelled after the design document, sections 4.1 to 4.4.                *)
(*                                                                         *)
(* Strings are sequences of one-character strings, so that splitting,      *)
(* trimming and parsing are modelled by what they do.                      *)
(***************************************************************************)
EXTENDS Integers, Sequences, FiniteSets, TLC

----------------------------------------------------------------------------
(* Bounds of the model.                                                    *)

\* longest environment (number of NAME=value entries) returned by osEnv
MaxEnvVars == 2
\* longest APIResources list returned by discovery
MaxResources == 2
\* number of commands the reconcilers submit to the route manager
MaxSubmit == 2

----------------------------------------------------------------------------
(* Program constants.                                                      *)

\* var defaultRouteTable = 254
defaultRouteTable == 254
\* customTable > 254 is rejected
MaxTableId == 254
\* net.IPv4len * 8: the largest prefix length ParseCIDR accepts for IPv4
IPv4Bits == 32
\* the exit status of os.Exit(1) in main's deferred recover
ExitRecovered == 1
\* the exit status of a Go program that dies of an unrecovered panic
ExitGoPanic == 2
\* the exit status of a Go program whose main returns
ExitOk == 0
\* no exit status yet: the process is alive
Alive == -1

----------------------------------------------------------------------------
(* Strings.                                                                *)

Digits == {"0", "1", "2", "3", "4", "5", "6", "7", "8", "9"}

DigitVal(c) ==
  CASE c = "0" -> 0 [] c = "1" -> 1 [] c = "2" -> 2 [] c = "3" -> 3
    [] c = "4" -> 4 [] c = "5" -> 5 [] c = "6" -> 6 [] c = "7" -> 7
    [] c = "8" -> 8 [] c = "9" -> 9

\* s[from:] of Go, with a 1-based first position
Suffix(s, from) == SubSeq(s, from, Len(s))

\* strings.Index(s, sub) + 1; 0 when sub does not occur in s
RECURSIVE IndexFrom(_, _, _)
IndexFrom(s, sub, i) ==
  IF i + Len(sub) - 1 > Len(s) THEN 0
  ELSE IF SubSeq(s, i, i + Len(sub) - 1) = sub THEN i
  ELSE IndexFrom(s, sub, i + 1)

Index(s, sub) == IndexFrom(s, sub, 1)

\* strings.Contains(s, sub)
Contains(s, sub) == Index(s, sub) # 0

\* strings.SplitN(s, sep, 2) for a one-character sep
SplitN2(s, sep) ==
  LET i == Index(s, <<sep>>)
  IN IF i = 0 THEN <<s>> ELSE <<SubSeq(s, 1, i - 1), Suffix(s, i + 1)>>

\* strings.Split(s, sep) for a one-character sep
RECURSIVE Split(_, _)
Split(s, sep) ==
  LET i == Index(s, <<sep>>)
  IN IF i = 0 THEN <<s>>
     ELSE <<SubSeq(s, 1, i - 1)>> \o Split(Suffix(s, i + 1), sep)

RECURSIVE TrimLeft(_, _)
TrimLeft(s, c) ==
  IF s # <<>> /\ Head(s) = c THEN TrimLeft(Tail(s), c) ELSE s

RECURSIVE TrimRight(_, _)
TrimRight(s, c) ==
  IF s # <<>> /\ s[Len(s)] = c THEN TrimRight(SubSeq(s, 1, Len(s) - 1), c)
  ELSE s

\* strings.Trim(s, cutset) for a one-character cutset
Trim(s, c) == TrimRight(TrimLeft(s, c), c)

----------------------------------------------------------------------------
(* strconv.Atoi, as parseTargetTable uses it.                              *)

\* the digits loop of strconv.Atoi's fast path: ok is FALSE at the first
\* character that is no digit
RECURSIVE AtoiDigits(_, _, _)
AtoiDigits(s, i, n) ==
  IF i > Len(s) THEN [ok |-> TRUE, n |-> n]
  ELSE IF s[i] \notin Digits THEN [ok |-> FALSE, n |-> 0]
  ELSE AtoiDigits(s, i + 1, n * 10 + DigitVal(s[i]))

\* strconv.Atoi(s): an optional sign, then at least one digit
Atoi(s) ==
  IF s = <<>> THEN [ok |-> FALSE, n |-> 0]
  ELSE LET signed == s[1] \in {"-", "+"}
           body == IF signed THEN Tail(s) ELSE s
           r == AtoiDigits(body, 1, 0)
       IN IF body = <<>> \/ ~r.ok THEN [ok |-> FALSE, n |-> 0]
          ELSE [ok |-> TRUE, n |-> IF s[1] = "-" THEN 0 - r.n ELSE r.n]

----------------------------------------------------------------------------
(* net.ParseCIDR for IPv4, as collectProtectedSubnets uses it.             *)

\* net.big: dtoi gives up at this value
DtoiBig == 16777215

\* net.dtoi(s): the decimal number s starts with; i is the number of
\* characters consumed
RECURSIVE DtoiLoop(_, _, _)
DtoiLoop(s, i, n) ==
  IF i > Len(s) \/ s[i] \notin Digits
  THEN IF i = 1 THEN [n |-> 0, i |-> 0, ok |-> FALSE]
       ELSE [n |-> n, i |-> i - 1, ok |-> TRUE]
  ELSE LET m == n * 10 + DigitVal(s[i])
       IN IF m >= DtoiBig THEN [n |-> DtoiBig, i |-> i - 1, ok |-> FALSE]
          ELSE DtoiLoop(s, i + 1, m)

Dtoi(s) == DtoiLoop(s, 1, 0)

\* net.parseIPv4(s): four decimal fields of at most 255 separated by dots;
\* <<>> stands for the nil IP
RECURSIVE ParseIPv4Loop(_, _, _)
ParseIPv4Loop(s, i, p) ==
  IF i = 4 THEN (IF s = <<>> THEN p ELSE <<>>)
  ELSE IF s = <<>> THEN <<>>
  ELSE IF i > 0 /\ s[1] # "." THEN <<>>
  ELSE LET rest == IF i > 0 THEN Tail(s) ELSE s
           d == Dtoi(rest)
       IN IF ~d.ok \/ d.n > 255 THEN <<>>
          ELSE ParseIPv4Loop(Suffix(rest, d.i + 1), i + 1, Append(p, d.n))

ParseIPv4(s) == ParseIPv4Loop(s, 0, <<>>)

RECURSIVE Pow2(_)
Pow2(k) == IF k = 0 THEN 1 ELSE 2 * Pow2(k - 1)

\* the number of mask bits that fall into octet k (1..4) of a /bits mask
OctetBits(bits, k) ==
  LET b == bits - 8 * (k - 1)
  IN IF b < 0 THEN 0 ELSE IF b > 8 THEN 8 ELSE b

\* IP.Mask(CIDRMask(bits, 32)): each octet ANDed with its part of the mask
MaskIP(ip, bits) ==
  [k \in 1..4 |-> ip[k] - (ip[k] % Pow2(8 - OctetBits(bits, k)))]

\* net.ParseCIDR(s): the network (masked IP, prefix length) of "a.b.c.d/n"
ParseCIDR(s) ==
  LET i == Index(s, <<"/">>)
      addr == SubSeq(s, 1, i - 1)
      mask == Suffix(s, i + 1)
      ip == ParseIPv4(addr)
      d == Dtoi(mask)
  IN IF i = 0 THEN [ok |-> FALSE, net |-> <<>>]
     ELSE IF ip = <<>> \/ ~d.ok \/ d.i # Len(mask) \/ d.n < 0 \/ d.n > IPv4Bits
          THEN [ok |-> FALSE, net |-> <<>>]
     ELSE [ok |-> TRUE, net |-> <<MaskIP(ip, d.n), d.n>>]

----------------------------------------------------------------------------
(* The inputs the process is started with.  Every entry pairs the text the *)
(* program reads with what that text stands for, written down by hand.     *)

\* the literal "PROTECTED_SUBNET_" of collectProtectedSubnets
ProtectedSubnetTag == <<"P", "R", "O", "T", "E", "C", "T", "E", "D", "_", "S", "U", "B", "N", "E", "T", "_">>

\* The environment entries osEnv may return: text is the NAME=value string;
\* protected tells whether NAME contains PROTECTED_SUBNET_; nets are the
\* networks its items denote, in order; bad tells that some item is no CIDR.
EnvMenu == <<
  [text |-> <<"P", "R", "O", "T", "E", "C", "T", "E", "D", "_", "S", "U", "B", "N", "E", "T", "_", "A", "=", "1", "9", "2", ".", "1", "6", "8", ".", "7", ".", "9", "/", "1", "6">>,
   protected |-> TRUE, bad |-> FALSE,
   nets |-> << <<<<192, 168, 0, 0>>, 16>> >>],
  [text |-> <<"P", "R", "O", "T", "E", "C", "T", "E", "D", "_", "S", "U", "B", "N", "E", "T", "_", "B", "=", " ", "1", "7", "2", ".", "1", "6", ".", "5", ".", "0", "/", "1", "2", " ", ",", "1", "0", "0", ".", "6", "4", ".", "0", ".", "0", "/", "1", "0">>,
   protected |-> TRUE, bad |-> FALSE,
   nets |-> << <<<<172, 16, 0, 0>>, 12>>, <<<<100, 64, 0, 0>>, 10>> >>],
  [text |-> <<"M", "Y", "_", "P", "R", "O", "T", "E", "C", "T", "E", "D", "_", "S", "U", "B", "N", "E", "T", "_", "C", "=", "1", "0", ".", "0", ".", "0", ".", "0", "/", "8">>,
   protected |-> TRUE, bad |-> FALSE,
   nets |-> << <<<<10, 0, 0, 0>>, 8>> >>],
  [text |-> <<"O", "T", "H", "E", "R", "=", "1", "0", ".", "0", ".", "0", ".", "0", "/", "8">>,
   protected |-> FALSE, bad |-> FALSE,
   nets |-> << >>],
  [text |-> <<"P", "R", "O", "T", "E", "C", "T", "E", "D", "_", "S", "U", "B", "N", "E", "T", "S", "=", "b", "o", "g", "u", "s">>,
   protected |-> FALSE, bad |-> FALSE,
   nets |-> << >>],
  [text |-> <<"P", "R", "O", "T", "E", "C", "T", "E", "D", "_", "S", "U", "B", "N", "E", "T", "_", "D", "=", "1", "0", ".", "0", ".", "0", ".", "0", "/", "3", "3">>,
   protected |-> TRUE, bad |-> TRUE,
   nets |-> << >>],
  [text |-> <<"P", "R", "O", "T", "E", "C", "T", "E", "D", "_", "S", "U", "B", "N", "E", "T", "_", "E", "=">>,
   protected |-> TRUE, bad |-> TRUE,
   nets |-> << >>],
  [text |-> <<"P", "R", "O", "T", "E", "C", "T", "E", "D", "_", "S", "U", "B", "N", "E", "T", "_", "F", "=", "1", "0", ".", "0", ".", "0", ".", "0", "/", "8", ",", "x">>,
   protected |-> TRUE, bad |-> TRUE,
   nets |-> << >>]
>>

\* The values getEnv("TARGET_TABLE") may return: text is the string, ok tells
\* whether it is empty or a decimal integer in 0..254, val is the table it
\* selects.
TableMenu == <<
  [text |-> <<>>, ok |-> TRUE, val |-> 254],
  [text |-> <<"0">>, ok |-> TRUE, val |-> 0],
  [text |-> <<"7">>, ok |-> TRUE, val |-> 7],
  [text |-> <<"1", "0", "0">>, ok |-> TRUE, val |-> 100],
  [text |-> <<"2", "5", "4">>, ok |-> TRUE, val |-> 254],
  [text |-> <<"+", "5">>, ok |-> TRUE, val |-> 5],
  [text |-> <<"0", "0", "7">>, ok |-> TRUE, val |-> 7],
  [text |-> <<"2", "5", "5">>, ok |-> FALSE, val |-> 0],
  [text |-> <<"-", "1">>, ok |-> FALSE, val |-> 0],
  [text |-> <<"1", "0", "0", "0">>, ok |-> FALSE, val |-> 0],
  [text |-> <<"x">>, ok |-> FALSE, val |-> 0],
  [text |-> <<"1", "x">>, ok |-> FALSE, val |-> 0],
  [text |-> <<"-">>, ok |-> FALSE, val |-> 0],
  [text |-> <<" ", "5">>, ok |-> FALSE, val |-> 0]
>>

----------------------------------------------------------------------------
(* parseTargetTable and collectProtectedSubnets.                           *)

\* customTable < 0 || customTable > 254
TableOutOfRangeTo255(n) == n < 0 \/ n > MaxTableId + 1

TableOutOfRange(n) == n < 0 \/ n > MaxTableId

\* parseTargetTable(targetTableEnv): panics, or returns the table
parseTargetTable(targetTableEnv) ==
  LET r == Atoi(targetTableEnv)
  IN IF ~r.ok THEN [panic |-> TRUE, table |-> 0]
     ELSE IF TableOutOfRange(r.n) THEN [panic |-> TRUE, table |-> 0]
     ELSE [panic |-> FALSE, table |-> r.n]

\* table := defaultRouteTable; if len(targetTableEnv) != 0 { table = parse }
SelectTable(targetTableEnv) ==
  IF Len(targetTableEnv) # 0 THEN parseTargetTable(targetTableEnv)
  ELSE [panic |-> FALSE, table |-> defaultRouteTable]

HasProtectedSubnetPrefix(name) ==
  /\ Len(name) >= Len(ProtectedSubnetTag)
  /\ SubSeq(name, 1, Len(ProtectedSubnetTag)) = ProtectedSubnetTag

\* strings.Contains(v[0], "PROTECTED_SUBNET_")
IsProtectedSubnetVar(name) == Contains(name, ProtectedSubnetTag)

\* strings.Trim(subnet, " ")
TrimItem(subnet) == Trim(subnet, " ")

\* the inner loop of collectProtectedSubnets over the items of one variable:
\* the first item that is no CIDR panics
RECURSIVE ParseItems(_, _, _)
ParseItems(items, j, acc) ==
  IF j > Len(items) THEN [panic |-> FALSE, subnets |-> acc]
  ELSE LET r == ParseCIDR(TrimItem(items[j]))
       IN IF ~r.ok THEN [panic |-> TRUE, subnets |-> acc]
          ELSE ParseItems(items, j + 1, Append(acc, r.net))

\* the outer loop of collectProtectedSubnets over the environment entries;
\* v[1] of an entry without "=" is an index out of range, a panic too
RECURSIVE CollectLoop(_, _, _)
CollectLoop(envVars, i, acc) ==
  IF i > Len(envVars) THEN [panic |-> FALSE, subnets |-> acc]
  ELSE LET v == SplitN2(envVars[i], "=")
       IN IF ~IsProtectedSubnetVar(v[1]) THEN CollectLoop(envVars, i + 1, acc)
          ELSE IF Len(v) < 2 THEN [panic |-> TRUE, subnets |-> acc]
          ELSE LET r == ParseItems(Split(v[2], ","), 1, acc)
               IN IF r.panic THEN r
                  ELSE CollectLoop(envVars, i + 1, r.subnets)

collectProtectedSubnets(envVars) == CollectLoop(envVars, 1, <<>>)

----------------------------------------------------------------------------
(* State.                                                                  *)

VARIABLES
  pc,               \* where the main goroutine stands in main / mainImpl
  panicVal,         \* the value main is panicking with: "err", "msg" or "nil"
  exitStatus,       \* the exit status of the process, Alive while it runs
  inputsRead,       \* which of the inputs below the program has read so far
  hostname,         \* getEnv("NODE_HOSTNAME")
  targetTableEnv,   \* getEnv("TARGET_TABLE")
  tableSrc,         \* the TableMenu entry targetTableEnv was taken from
  env,              \* osEnv()
  envSrc,           \* the EnvMenu entries env was taken from
  resources,        \* the Kinds of resources.APIResources
  resIdx,           \* the position of the for loop over resources
  table,            \* mainImpl's local table
  protectedSubnets, \* mainImpl's local protectedSubnets
  crdFound,         \* mainImpl's local crdFound
  nRouteManagers,   \* how many times newRouterManager was called
  runLaunches,      \* the route managers a "go Run" was launched on, in order
  srControllers,    \* the ManagerOptions of every addStaticRouteController
  nNodeControllers, \* how many times addNodeController succeeded
  mgrStarted,       \* mgr.Start was called
  closedChans,      \* the stop channels that are closed
  engineState,      \* the route manager: "None", "Idle", "Running", "Stopped"
  runResult,        \* what Run returned: "none" while it has not
  queue,            \* the route manager's command queue
  kernel,           \* the entries of the kernel routing tables
  desired,          \* the route manager's last-known desired set
  nSubmitted,       \* the number of commands submitted so far
  nProcessed,       \* the number of commands taken off the queue so far
  lastOutcome       \* how the last step on the kernel table ended

inputVars == <<inputsRead, hostname, targetTableEnv, tableSrc, env, envSrc,
               resources>>
localVars == <<resIdx, table, protectedSubnets, crdFound>>
wiringVars == <<nRouteManagers, runLaunches, srControllers, nNodeControllers,
                mgrStarted>>
routeVars == <<queue, kernel, desired, nSubmitted, nProcessed, lastOutcome>>
engineVars == <<engineState, runResult, routeVars>>
vars == <<pc, panicVal, exitStatus, inputVars, localVars, wiringVars,
          closedChans, engineVars>>

\* the process has not exited
ProcessAlive == exitStatus = Alive

\* all sequences over S of length at most n
SeqsUpTo(S, n) == UNION {[1..k -> S] : k \in 0..n}

Init ==
  /\ pc = "getConfig"
  /\ panicVal = "none"
  /\ exitStatus = Alive
  /\ inputsRead = {}
  /\ hostname = <<>>
  /\ targetTableEnv = <<>>
  /\ tableSrc = 1
  /\ env = <<>>
  /\ envSrc = <<>>
  /\ resources = <<>>
  /\ resIdx = 1
  /\ table = 0
  /\ protectedSubnets = <<>>
  /\ crdFound = FALSE
  /\ nRouteManagers = 0
  /\ runLaunches = <<>>
  /\ srControllers = <<>>
  /\ nNodeControllers = 0
  /\ mgrStarted = FALSE
  /\ closedChans = {}
  /\ engineState = "None"
  /\ runResult = "none"
  /\ queue = <<>>
  /\ kernel = {}
  /\ desired = {}
  /\ nSubmitted = 0
  /\ nProcessed = 0
  /\ lastOutcome = "none"

----------------------------------------------------------------------------
(* main and mainImpl: the main goroutine.                                  *)

\* a call that either succeeds, and mainImpl goes on at next, or returns an
\* error, which mainImpl panics with
CallOrPanic(at, next) ==
  /\ ProcessAlive
  /\ pc = at
  /\ \E ok \in BOOLEAN :
       IF ok THEN pc' = next /\ panicVal' = panicVal
       ELSE pc' = "panicking" /\ panicVal' = "err"
  /\ UNCHANGED <<exitStatus, inputVars, localVars, wiringVars, closedChans,
                 engineVars>>

\* cfg, err := params.getConfig()
GetConfig == CallOrPanic("getConfig", "newManager")

\* mgr, err := params.newManager(cfg, ...)
NewManager == CallOrPanic("newManager", "addToScheme")

\* params.addToScheme(mgr.GetScheme())
AddToScheme == CallOrPanic("addToScheme", "getHostname")

HostnameNeverMissing(h) == FALSE

\* hostname == ""
HostnameMissing(h) == h = <<>>

\* hostname := params.getEnv("NODE_HOSTNAME"), and the check that follows
GetHostname ==
  /\ ProcessAlive
  /\ pc = "getHostname"
  /\ \E h \in {<<>>, <<"n", "1">>} :
       /\ hostname' = h
       /\ IF HostnameMissing(h)
          THEN pc' = "panicking" /\ panicVal' = "msg"
          ELSE pc' = "newKubernetesConfig" /\ panicVal' = panicVal
  /\ inputsRead' = inputsRead \cup {"hostname"}
  /\ UNCHANGED <<exitStatus, targetTableEnv, tableSrc, env, envSrc, resources,
                 localVars, wiringVars, closedChans, engineVars>>

\* clientset, err := params.newKubernetesConfig(cfg)
NewKubernetesConfig ==
  CallOrPanic("newKubernetesConfig", "discovery")

\* resources, err := clientset.Discovery().ServerResourcesForGroupVersion(..)
Discovery(kinds) ==
  /\ ProcessAlive
  /\ pc = "discovery"
  /\ \E ok \in BOOLEAN :
       IF ok
       THEN /\ \E r \in SeqsUpTo(kinds, MaxResources) : resources' = r
            /\ pc' = "selectTable"
            /\ panicVal' = panicVal
       ELSE /\ resources' = resources
            /\ pc' = "panicking"
            /\ panicVal' = "err"
  /\ inputsRead' = IF pc' = "selectTable" THEN inputsRead \cup {"resources"}
                   ELSE inputsRead
  /\ UNCHANGED <<exitStatus, hostname, targetTableEnv, tableSrc, env, envSrc,
                 localVars, wiringVars, closedChans, engineVars>>

\* table := defaultRouteTable ... table = parseTargetTable(targetTableEnv)
ReadTargetTable(choices) ==
  /\ ProcessAlive
  /\ pc = "selectTable"
  /\ \E i \in choices :
       LET r == SelectTable(TableMenu[i].text)
       IN /\ tableSrc' = i
          /\ targetTableEnv' = TableMenu[i].text
          /\ IF r.panic
             THEN pc' = "panicking" /\ panicVal' = "msg" /\ table' = table
             ELSE pc' = "collect" /\ panicVal' = panicVal /\ table' = r.table
  /\ inputsRead' = inputsRead \cup {"table"}
  /\ UNCHANGED <<exitStatus, hostname, env, envSrc, resources, resIdx,
                 protectedSubnets, crdFound, wiringVars, closedChans,
                 engineVars>>

\* protectedSubnets := collectProtectedSubnets(params.osEnv())
CollectSubnets(choices) ==
  /\ ProcessAlive
  /\ pc = "collect"
  /\ \E src \in SeqsUpTo(choices, MaxEnvVars) :
       LET e == [k \in 1..Len(src) |-> EnvMenu[src[k]].text]
           r == collectProtectedSubnets(e)
       IN /\ envSrc' = src
          /\ env' = e
          /\ IF r.panic
             THEN /\ pc' = "panicking"
                  /\ panicVal' = "err"
                  /\ protectedSubnets' = protectedSubnets
             ELSE /\ pc' = "loop"
                  /\ panicVal' = panicVal
                  /\ protectedSubnets' = r.subnets
  /\ inputsRead' = inputsRead \cup {"env"}
  /\ UNCHANGED <<exitStatus, hostname, targetTableEnv, tableSrc, resources,
                 resIdx, table, crdFound, wiringVars, closedChans, engineVars>>

\* what the for loop does after a successful addStaticRouteController:
\* crdFound = true; break
NextIndexWithoutBreak(i, n) == i + 1

NextIndexAfterRegister(i, n) == n + 1

\* the channel mainImpl makes and hands to routeManager.Run
NewStopChan == "stopChan"

\* the channel setupSignalHandler returns, handed to mgr.Start
SignalChan == "signalChan"

\* the stop channel of routeManager.Run(stopChan)
RunStopChan == NewStopChan

\* one iteration of "for _, resource := range resources.APIResources" up to
\* the launch of the goroutine: skip a resource of another kind, or create
\* the route manager and launch Run on it
LoopStep ==
  /\ ProcessAlive
  /\ pc = "loop"
  /\ IF resIdx > Len(resources)
     THEN /\ pc' = "checkCrd"
          /\ UNCHANGED <<resIdx, nRouteManagers, runLaunches, engineState>>
     ELSE IF resources[resIdx] # "StaticRoute"
     THEN /\ resIdx' = resIdx + 1
          /\ UNCHANGED <<pc, nRouteManagers, runLaunches, engineState>>
     ELSE /\ nRouteManagers' = nRouteManagers + 1
          /\ runLaunches' = Append(runLaunches, nRouteManagers + 1)
          /\ engineState' = IF engineState = "None" THEN "Idle" ELSE engineState
          /\ pc' = "addStaticRoute"
          /\ resIdx' = resIdx
  /\ UNCHANGED <<panicVal, exitStatus, inputVars, table, protectedSubnets,
                 crdFound, srControllers, nNodeControllers, mgrStarted,
                 closedChans, runResult, routeVars>>

ProtectedSubnetsOmitted(subnets) == <<>>

\* ManagerOptions.ProtectedSubnets: protectedSubnets
ProtectedSubnetsOption(subnets) == subnets

\* params.addStaticRouteController(mgr, staticroute.ManagerOptions{...}),
\* then crdFound = true; break
AddStaticRouteController ==
  /\ ProcessAlive
  /\ pc = "addStaticRoute"
  /\ \E ok \in BOOLEAN :
       IF ok
       THEN /\ srControllers' =
                 Append(srControllers,
                        [Hostname |-> hostname,
                         Table |-> table,
                         ProtectedSubnets |->
                           ProtectedSubnetsOption(protectedSubnets),
                         RouteManager |-> nRouteManagers])
            /\ crdFound' = TRUE
            /\ resIdx' = NextIndexAfterRegister(resIdx, Len(resources))
            /\ pc' = "loop"
            /\ panicVal' = panicVal
       ELSE /\ pc' = "panicking"
            /\ panicVal' = "err"
            /\ UNCHANGED <<srControllers, crdFound, resIdx>>
  /\ UNCHANGED <<exitStatus, inputVars, table, protectedSubnets,
                 nRouteManagers, runLaunches, nNodeControllers, mgrStarted,
                 closedChans, engineVars>>

\* if !crdFound { ...; panic(err) }: err is the nil error of the discovery
CheckCrd ==
  /\ ProcessAlive
  /\ pc = "checkCrd"
  /\ IF ~crdFound
     THEN pc' = "panicking" /\ panicVal' = "nil"
     ELSE pc' = "addNodeController" /\ panicVal' = panicVal
  /\ UNCHANGED <<exitStatus, inputVars, localVars, wiringVars, closedChans,
                 engineVars>>

\* params.addNodeController(mgr)
AddNodeController ==
  /\ ProcessAlive
  /\ pc = "addNodeController"
  /\ \E ok \in BOOLEAN :
       IF ok
       THEN /\ nNodeControllers' = nNodeControllers + 1
            /\ pc' = "mgrStart"
            /\ panicVal' = panicVal
       ELSE /\ nNodeControllers' = nNodeControllers
            /\ pc' = "panicking"
            /\ panicVal' = "err"
  /\ UNCHANGED <<exitStatus, inputVars, localVars, nRouteManagers,
                 runLaunches, srControllers, mgrStarted, closedChans,
                 engineVars>>

\* mgr.Start(params.setupSignalHandler()) is entered
MgrStart ==
  /\ ProcessAlive
  /\ pc = "mgrStart"
  /\ mgrStarted' = TRUE
  /\ pc' = "mgrRunning"
  /\ UNCHANGED <<panicVal, exitStatus, inputVars, localVars, nRouteManagers,
                 runLaunches, srControllers, nNodeControllers, closedChans,
                 engineVars>>

\* SIGTERM or SIGINT arrives: the signal handler closes its channel
StopSignal ==
  /\ ProcessAlive
  /\ pc = "mgrRunning"
  /\ SignalChan \notin closedChans
  /\ closedChans' = closedChans \cup {SignalChan}
  /\ UNCHANGED <<pc, panicVal, exitStatus, inputVars, localVars, wiringVars,
                 engineVars>>

\* mgr.Start returns: an error, which mainImpl panics with, or nil once its
\* stop channel is closed, and then mainImpl and main return
MgrStartReturns ==
  /\ ProcessAlive
  /\ pc = "mgrRunning"
  /\ \E failed \in BOOLEAN :
       /\ failed \/ SignalChan \in closedChans
       /\ IF failed
          THEN pc' = "panicking" /\ panicVal' = "err" /\ exitStatus' = exitStatus
          ELSE pc' = "exited" /\ panicVal' = panicVal /\ exitStatus' = ExitOk
  /\ UNCHANGED <<inputVars, localVars, wiringVars, closedChans, engineVars>>

\* main's deferred function: if r := recover(); r != nil { os.Exit(1) }.
\* recover() of panic(nil) returns nil, and main returns, in a build with
\* the semantics of Go before 1.21; it returns a *runtime.PanicNilError in
\* a build with the semantics of Go 1.21.
Recover ==
  /\ ProcessAlive
  /\ pc = "panicking"
  /\ \E nilIsError \in BOOLEAN :
       LET r == IF panicVal = "nil" /\ nilIsError THEN "err" ELSE panicVal
       IN exitStatus' = IF r # "nil" THEN ExitRecovered ELSE ExitOk
  /\ pc' = "exited"
  /\ UNCHANGED <<panicVal, inputVars, localVars, wiringVars, closedChans,
                 engineVars>>

----------------------------------------------------------------------------
(* The goroutine "go func() { panic(routeManager.Run(stopChan)) }()".      *)

\* the goroutine is scheduled and Run enters its loop
RunStart ==
  /\ ProcessAlive
  /\ engineState = "Idle"
  /\ runLaunches # <<>>
  /\ engineState' = "Running"
  /\ UNCHANGED <<pc, panicVal, exitStatus, inputVars, localVars, wiringVars,
                 closedChans, runResult, routeVars>>

\* Run returns: nil when its stop channel is closed, an error when the loop
\* meets a fatal condition; what is still queued is discarded
RunReturns ==
  /\ ProcessAlive
  /\ engineState = "Running"
  /\ engineState' = "Stopped"
  /\ runResult' = IF RunStopChan \in closedChans THEN "nil" ELSE "err"
  /\ queue' = <<>>
  /\ UNCHANGED <<pc, panicVal, exitStatus, inputVars, localVars, wiringVars,
                 closedChans, kernel, desired, nSubmitted, nProcessed,
                 lastOutcome>>

RunResultDropped(result) == Alive

\* panic(result) in a goroutine without a recover: the runtime prints the
\* panic and the process exits with status 2, whatever result is
PanicInGoroutine(result) == ExitGoPanic

\* the goroutine panics with what Run returned
RunPanic ==
  /\ ProcessAlive
  /\ runResult # "none"
  /\ exitStatus' = PanicInGoroutine(runResult)
  /\ UNCHANGED <<pc, panicVal, inputVars, localVars, wiringVars, closedChans,
                 engineVars>>

----------------------------------------------------------------------------
(* The route manager and the reconciler, after the design document         *)
(* (sections 4.1, 4.3 and 4.4).                                            *)

\* the destinations of the route intents: inside 10.0.0.0/8, inside
\* 192.168.0.0/16, and a network that contains 10.0.0.0/8
Destinations ==
  { <<<<10, 1, 0, 0>>, 16>>, <<<<192, 168, 1, 0>>, 24>>, <<<<8, 0, 0, 0>>, 5>> }

\* the explicit gateways of the route intents
Gateways == {"gwA"}

\* an intent without an explicit gateway
NoGw == "none"

\* what the gateway resolver may answer: a gateway, or no route
ResolverAnswers == {"gwR", "unreachable"}

\* whether network n contains address ip
NetContains(n, ip) == MaskIP(ip, n[2]) = n[1]

\* the bidirectional overlap test of the protected subnet guard
Overlaps(a, b) == NetContains(a, b[1]) \/ NetContains(b, a[1])

\* IsProtected(candidate) over the subnet set
IsProtected(candidate, subnets) ==
  \E k \in 1..Len(subnets) : Overlaps(candidate, subnets[k])

\* the subnet set of the guard: the one mainImpl handed over
GuardSubnets == srControllers[1].ProtectedSubnets

\* install-or-update: the entry replaces the one of its destination and table
Install(entries, e) ==
  {x \in entries : ~(x.dst = e.dst /\ x.table = e.table)} \cup {e}

\* idempotent delete of the entry of a destination and table
Remove(entries, dst, tbl) ==
  {x \in entries : ~(x.dst = dst /\ x.table = tbl)}

ReconcileWithoutReinstall(k, d) == k \ (k \ d)

\* a reconciliation tick: what is no longer desired is removed, what is
\* desired and gone is installed again
Reconcile(k, d) == (k \ (k \ d)) \cup (d \ k)

PickLast(q) == Len(q)

\* the position in the queue of the command the loop takes next
PickNext(q) == 1

\* the queue without its i-th command
Without(q, i) == SubSeq(q, 1, i - 1) \o SubSeq(q, i + 1, Len(q))

\* the reconciler, called by the manager for an intent of this node, builds
\* the route with the table of its options and submits an Add or a Delete;
\* Submit on a stopped engine fails with EngineStopped
Submit ==
  /\ ProcessAlive
  /\ pc = "mgrRunning"
  /\ nSubmitted < MaxSubmit
  /\ \E op \in {"Add", "Delete"}, dst \in Destinations,
        gw \in Gateways \cup {NoGw} :
       /\ op = "Delete" => gw = NoGw
       /\ queue' = IF engineState = "Stopped" THEN queue
                   ELSE Append(queue, [op |-> op, dst |-> dst, gw |-> gw,
                                       table |-> srControllers[1].Table,
                                       seq |-> nSubmitted + 1])
  /\ nSubmitted' = nSubmitted + 1
  /\ UNCHANGED <<pc, panicVal, exitStatus, inputVars, localVars, wiringVars,
                 closedChans, engineState, runResult, kernel, desired,
                 nProcessed, lastOutcome>>

\* the loop of Run takes the next command off the queue and applies it
Process ==
  /\ ProcessAlive
  /\ engineState = "Running"
  /\ RunStopChan \notin closedChans
  /\ queue # <<>>
  /\ LET i == PickNext(queue)
         c == queue[i]
     IN /\ queue' = Without(queue, i)
        /\ \E answer \in ResolverAnswers, kernelOk \in BOOLEAN :
             LET gw == IF c.gw = NoGw THEN answer ELSE c.gw
                 e == [dst |-> c.dst, gw |-> gw, table |-> c.table]
                 outcome ==
                   IF c.op = "Add" /\ IsProtected(c.dst, GuardSubnets)
                   THEN "rejected"
                   ELSE IF c.op = "Add" /\ gw = "unreachable"
                   THEN "unreachable"
                   ELSE IF ~kernelOk THEN "failed"
                   ELSE "applied"
             IN /\ lastOutcome' = outcome
                /\ IF outcome # "applied"
                   THEN UNCHANGED <<kernel, desired>>
                   ELSE IF c.op = "Add"
                   THEN /\ kernel' = Install(kernel, e)
                        /\ desired' = Install(desired, e)
                   ELSE /\ kernel' = Remove(kernel, c.dst, c.table)
                        /\ desired' = Remove(desired, c.dst, c.table)
  /\ nProcessed' = nProcessed + 1
  /\ UNCHANGED <<pc, panicVal, exitStatus, inputVars, localVars, wiringVars,
                 closedChans, engineState, runResult, nSubmitted>>

\* the periodic reconciliation tick of Run
Tick ==
  /\ ProcessAlive
  /\ engineState = "Running"
  /\ RunStopChan \notin closedChans
  /\ kernel' = Reconcile(kernel, desired)
  /\ lastOutcome' = IF desired \ kernel # {} THEN "healed" ELSE "clean"
  /\ UNCHANGED <<pc, panicVal, exitStatus, inputVars, localVars, wiringVars,
                 closedChans, engineState, runResult, queue, desired,
                 nSubmitted, nProcessed>>

\* an external actor removes an entry from the kernel table
ExternalRemove ==
  /\ ProcessAlive
  /\ \E e \in kernel : kernel' = kernel \ {e}
  /\ lastOutcome' = "drifted"
  /\ UNCHANGED <<pc, panicVal, exitStatus, inputVars, localVars, wiringVars,
                 closedChans, engineState, runResult, queue, desired,
                 nSubmitted, nProcessed>>

----------------------------------------------------------------------------
(* Specifications.                                                         *)

Kinds == {"StaticRoute", "Other"}

AllTables == 1..Len(TableMenu)

AllEnvEntries == 1..Len(EnvMenu)

\* the steps of the process without the traffic of route commands
Startup(kinds, tables, envs) ==
  \/ GetConfig
  \/ NewManager
  \/ AddToScheme
  \/ GetHostname
  \/ NewKubernetesConfig
  \/ Discovery(kinds)
  \/ ReadTargetTable(tables)
  \/ CollectSubnets(envs)
  \/ LoopStep
  \/ AddStaticRouteController
  \/ CheckCrd
  \/ AddNodeController
  \/ MgrStart
  \/ StopSignal
  \/ MgrStartReturns
  \/ Recover
  \/ RunStart
  \/ RunReturns
  \/ RunPanic

\* start-up and life cycle of the process, over every input of the menus
Next == Startup(Kinds, AllTables, AllEnvEntries)

Spec == Init /\ [][Next]_vars

\* the inputs of the engine specification: the table 100 and the variable
\* MY_PROTECTED_SUBNET_C
EngineTables == {4}

EngineEnvEntries == {3}

\* the process with the route commands of the reconcilers, the route
\* manager's loop and the external actor
NextEngine ==
  \/ Startup({"StaticRoute"}, EngineTables, EngineEnvEntries)
  \/ Submit
  \/ Process
  \/ Tick
  \/ ExternalRemove

SpecEngine == Init /\ [][NextEngine]_vars

\* the scheduling of the Go runtime: a goroutine that can run does run
Fairness ==
  /\ WF_vars(RunStart)
  /\ WF_vars(RunPanic)
  /\ WF_vars(Recover)

FairSpecEngine == SpecEngine /\ Fairness

----------------------------------------------------------------------------
(* What the inputs stand for, from the menus.                              *)

\* the networks the environment declares, in order
RECURSIVE ExpectedNets(_)
ExpectedNets(src) ==
  IF src = <<>> THEN <<>>
  ELSE EnvMenu[Head(src)].nets \o ExpectedNets(Tail(src))

\* two networks share an address: they agree on the shorter of the prefixes
ShareAddress(a, b) ==
  LET m == IF a[2] < b[2] THEN a[2] ELSE b[2]
  IN MaskIP(a[1], m) = MaskIP(b[1], m)

\* the configuration read so far is in error
BadConfig ==
  \/ "hostname" \in inputsRead /\ hostname = <<>>
  \/ "table" \in inputsRead /\ ~TableMenu[tableSrc].ok
  \/ "env" \in inputsRead /\ \E k \in 1..Len(envSrc) : EnvMenu[envSrc[k]].bad

\* nothing of the operator has been set up
NothingSetUp ==
  /\ nRouteManagers = 0
  /\ runLaunches = <<>>
  /\ engineState = "None"
  /\ srControllers = <<>>
  /\ nNodeControllers = 0
  /\ ~mgrStarted

----------------------------------------------------------------------------
(* The claims.                                                             *)

\* C1: no kernel entry ever has a destination that overlaps a protected
\* subnet declared by the environment, whatever commands were submitted and
\* in whatever order.
Thm_C1 ==
  \A e \in kernel : \A k \in 1..Len(ExpectedNets(envSrc)) :
    ~ShareAddress(e.dst, ExpectedNets(envSrc)[k])

\* C1 witness: an Add for a protected destination was rejected while the
\* table holds an entry of another command, and the table is still clean.
Wit_C1 ==
  /\ lastOutcome = "rejected"
  /\ kernel # {}
  /\ ExpectedNets(envSrc) # <<>>

\* C2: when the discovered resource list holds no StaticRoute, nothing is
\* set up and the process does not end with exit status 0.
CE_C2 ==
  ("resources" \in inputsRead
     /\ \A k \in 1..Len(resources) : resources[k] # "StaticRoute")
  => /\ NothingSetUp
     /\ (pc = "exited" => exitStatus # ExitOk)

\* C3: with a configuration error the process is panicking or has exited
\* with status 1, and nothing of the operator was ever set up.
Thm_C3 ==
  BadConfig
  => /\ NothingSetUp
     /\ pc \in {"panicking", "exited"}
     /\ exitStatus = IF pc = "exited" THEN ExitRecovered ELSE Alive

\* C3 witness: an environment with an unparsable protected subnet made the
\* process exit with status 1.
Wit_C3 ==
  /\ "env" \in inputsRead
  /\ \E k \in 1..Len(envSrc) : EnvMenu[envSrc[k]].bad
  /\ exitStatus = ExitRecovered

\* C4: at most one route manager is created and Run is launched at most
\* once; a registered static-route controller holds the route manager Run
\* was launched on; a started manager has exactly one of each.
Thm_C4 ==
  /\ nRouteManagers <= 1
  /\ Len(runLaunches) <= 1
  /\ Len(srControllers) <= 1
  /\ srControllers # <<>> => runLaunches = <<srControllers[1].RouteManager>>
  /\ mgrStarted => Len(runLaunches) = 1 /\ Len(srControllers) = 1

\* C4 witness: the manager was started after a discovery that listed two
\* resources of kind StaticRoute.
Wit_C4 ==
  /\ mgrStarted
  /\ Len(resources) >= 2
  /\ \A k \in 1..Len(resources) : resources[k] = "StaticRoute"

\* C5 as stated: once Run has returned, the process eventually ends with a
\* non-zero exit status.
CE_C5 ==
  (runResult # "none") ~> (exitStatus \in {ExitRecovered, ExitGoPanic})

\* C5 amended: once Run has returned, the process eventually ends, with a
\* non-zero exit status unless the stop signal has fired and main returned.
Thm_C5 ==
  (runResult # "none")
    ~> \/ exitStatus \in {ExitRecovered, ExitGoPanic}
       \/ exitStatus = ExitOk /\ SignalChan \in closedChans

\* C5 witness: the process died of the goroutine's panic while the manager
\* was running.
Wit_C5 ==
  /\ runResult = "err"
  /\ exitStatus = ExitGoPanic
  /\ pc = "mgrRunning"

\* a step after the stop signal applies no queued command to the table
NothingAppliedAfterSignal ==
  SignalChan \in closedChans =>
    ~(nProcessed' = nProcessed + 1 /\ lastOutcome' = "applied")

\* C6: once the stop signal has fired, the route manager applies no further
\* queued Add or Delete to the kernel table.
CE_C6 == [][NothingAppliedAfterSignal]_vars

\* C7: the table of the static-route controller is in 0..254: 254 for an
\* empty TARGET_TABLE, else the integer TARGET_TABLE stands for.
Thm_C7 ==
  \A k \in 1..Len(srControllers) :
    /\ srControllers[k].Table \in 0..254
    /\ TableMenu[tableSrc].ok
    /\ srControllers[k].Table =
         IF targetTableEnv = <<>> THEN 254 ELSE TableMenu[tableSrc].val

\* C7 witness: the controller was registered with table 5, from "+5".
Wit_C7 ==
  /\ Len(srControllers) = 1
  /\ targetTableEnv = <<"+", "5">>
  /\ srControllers[1].Table = 5

\* the entries of a destination and table
EntriesOf(entries, dst, tbl) ==
  {x \in entries : x.dst = dst /\ x.table = tbl}

\* the command a step takes off the queue
Taken ==
  CHOOSE c \in {queue[i] : i \in 1..Len(queue)} :
    c \notin {queue'[i] : i \in 1..Len(queue')}

\* a step that takes a command takes the one submitted first, and the table
\* then reflects it if it was applied
TakenInOrderAndReflected ==
  (nProcessed' = nProcessed + 1) =>
    /\ \A i \in 1..Len(queue) : queue[i].seq >= Taken.seq
    /\ Taken.seq = nProcessed'
    /\ (lastOutcome' = "applied" /\ Taken.op = "Add") =>
         \E e \in kernel' :
           /\ EntriesOf(kernel', Taken.dst, Taken.table) = {e}
           /\ e.gw = IF Taken.gw = NoGw THEN "gwR" ELSE Taken.gw
    /\ (lastOutcome' = "applied" /\ Taken.op = "Delete") =>
         EntriesOf(kernel', Taken.dst, Taken.table) = {}

\* C8: commands are taken in submission order; an applied Add leaves
\* exactly the entry with its gateway, an applied Delete leaves none; no
\* destination and table ever has two entries.
Thm_C8 ==
  /\ [](\A x, y \in kernel : x.dst = y.dst /\ x.table = y.table => x = y)
  /\ [][TakenInOrderAndReflected]_vars

\* C8 witness: two commands were processed, the second was applied, and the
\* table holds the single entry of its destination, with the gateway of the
\* second command.
Wit_C8 ==
  /\ nProcessed = 2
  /\ lastOutcome = "applied"
  /\ \E e \in kernel : kernel = {e} /\ desired = {e} /\ e.gw = "gwA"

Thm_C10 ==
  \A k \in 1..Len(srControllers) :
    srControllers[k].ProtectedSubnets = ExpectedNets(envSrc)

\* C10 witness: the controller was registered under an environment with a
\* two-item variable with spaces and a variable whose name only contains
\* the tag.
Wit_C10 ==
  /\ Len(srControllers) = 1
  /\ envSrc = <<2, 3>>
  /\ Len(srControllers[1].ProtectedSubnets) = 3

====
